---- MODULE Spec2Model ----
(***************************************************************************)
(* Model of streamlit_university_chatbot.py: the rule-based FAQ matcher    *)
(* get_rule_based_answer, the Gemini call chain call_gemini, and the       *)
(* Streamlit callback handle_ask with the conversation history.            *)
(*                                                                         *)
(* Python str values are TLA+ strings (Len, SubSeq and \o act on them).    *)
(* An optional value (None or a value) is a sequence of length 0 or 1.     *)
(* A float temperature t is the integer 10*t (0.2 is 2, 1.5 is 15).        *)
(***************************************************************************)
EXTENDS Integers, Sequences, FiniteSets, TLC

VARIABLES
    user_input,   \* st.session_state['user_input'], the text box
    history,      \* st.session_state['history'], list of {user, bot}
    environ,      \* os.environ restricted to the two key names
    secrets,      \* Streamlit's secret store (st.secrets); line 87 never reads it
    world,        \* what is installed and how the provider behaves at a call
    args,         \* the arguments of the call under study
    result        \* what the last call did: function, effective key, trace, answer

vars == <<user_input, history, environ, secrets, world, args, result>>

\* result and args are records kept beside the program's state: result is
\* reset by every operation of the page, so it always tells what the last
\* operation called.

-----------------------------------------------------------------------------
(* Optional values and Python truthiness                                   *)

None == <<>>
Some(x) == <<x>>

\* bool(x) for x: Optional[str]
Truthy(o) == o # None /\ o[1] # ""

\* Python's 'a or b'
Or(a, b) == IF Truthy(a) THEN a ELSE b

-----------------------------------------------------------------------------
(* Python str methods                                                      *)

UpperCase == "ABCDEFGHIJKLMNOPQRSTUVWXYZ"
LowerCase == "abcdefghijklmnopqrstuvwxyz"
Whitespace == {" ", "\t", "\n", "\r", "\f"}

CharAt(s, i) == SubSeq(s, i, i)

LowerChar(c) ==
    IF \E i \in 1..Len(UpperCase) : CharAt(UpperCase, i) = c
    THEN CharAt(LowerCase, CHOOSE i \in 1..Len(UpperCase) : CharAt(UpperCase, i) = c)
    ELSE c

RECURSIVE LowerFrom(_, _)
LowerFrom(s, i) ==
    IF i > Len(s) THEN "" ELSE LowerChar(CharAt(s, i)) \o LowerFrom(s, i + 1)

\* str.lower()
lower(s) == LowerFrom(s, 1)

\* 'sub in s' for strings
Contains(sub, s) ==
    \E i \in 0..(Len(s) - Len(sub)) : SubSeq(s, i + 1, i + Len(sub)) = sub

\* a variant of strip that trims nothing
strip_nothing(s) == s

\* str.strip(): drop leading and trailing whitespace
strip(s) ==
    LET keep == {i \in 1..Len(s) : CharAt(s, i) \notin Whitespace}
    IN  IF keep = {} THEN ""
        ELSE LET lo == CHOOSE i \in keep : \A j \in keep : i <= j
                 hi == CHOOSE i \in keep : \A j \in keep : j <= i
             IN  SubSeq(s, lo, hi)

\* str.split(): the maximal runs of non-whitespace characters, in order
RECURSIVE SplitFrom(_, _, _)
SplitFrom(s, i, cur) ==
    IF i > Len(s)
    THEN IF cur = "" THEN <<>> ELSE <<cur>>
    ELSE IF CharAt(s, i) \in Whitespace
         THEN (IF cur = "" THEN <<>> ELSE <<cur>>) \o SplitFrom(s, i + 1, "")
         ELSE SplitFrom(s, i + 1, cur \o CharAt(s, i))

split(s) == SplitFrom(s, 1, "")

-----------------------------------------------------------------------------
(* The knowledge base                                                      *)

\* the answers are opaque to the program; the non-ASCII dash of entries 4 and
\* 5 is written "-"
CUSTOM_KB == <<
    [q |-> "Where is the library?",
     a |-> "The main university library is located in Building A, Level 2. Opening hours: Mon-Fri 8:30am - 10:00pm, Sat 9:00am - 5:00pm. For borrowing & returns use your student card at the front desk or the self-checkout kiosks."],
    [q |-> "How do I register for exams?",
     a |-> "Exam registration is done via the student portal under 'Academic > Exam Registration'. Make sure you've paid all necessary fees and completed course enrollment before the registration deadline. Contact the Exams Office if you face issues."],
    [q |-> "How can I reset my student portal password?",
     a |-> "Reset your password at the portal's 'Forgot Password' link. If that fails, submit a help ticket to IT Support with your student ID and a photo ID for verification."],
    [q |-> "Where can I apply for scholarships?",
     a |-> "Visit the Scholarships page under Student Services for current openings. Some scholarships require faculty nomination - check eligibility carefully and prepare transcripts and recommendation letters."],
    [q |-> "What are the library's rules for group study rooms?",
     a |-> "Group study rooms can be booked online via the library booking system for up to 2 hours at a time. Keep noise to a minimum and leave the room tidy. No food or drinks allowed in certain rooms - check room details when booking."]
>>

\* dict in insertion order, as Python iterates it
FAQ_KEYWORDS == <<
    [k |-> "library",     a |-> CUSTOM_KB[1].a],
    [k |-> "exam",        a |-> CUSTOM_KB[2].a],
    [k |-> "register",    a |-> CUSTOM_KB[2].a],
    [k |-> "password",    a |-> CUSTOM_KB[3].a],
    [k |-> "scholarship", a |-> CUSTOM_KB[4].a],
    [k |-> "group study", a |-> CUSTOM_KB[5].a],
    [k |-> "study room",  a |-> CUSTOM_KB[5].a]
>>

FALLBACK_ANSWER ==
    "I don't have a precise answer in my FAQ. Try rephrasing the question or provide a Gemini API key in the sidebar to enable AI-powered answers."

\* a token of an entry's question counts only when longer than this
MinWordLen == 3

-----------------------------------------------------------------------------
(* get_rule_based_answer                                                   *)

\* the condition of line 58, q already lower-cased
EntryMatches(entry, q) ==
    LET entry_q == lower(entry.q)
        words == split(entry_q)
    IN  \/ Contains(entry_q, q)
        \/ \E n \in 1..Len(words) :
              Len(words[n]) > MinWordLen /\ Contains(words[n], q)

\* the loop of lines 62-64, then the return of lines 66-68
RECURSIVE ScanKeywords(_, _)
ScanKeywords(q, n) ==
    IF n > Len(FAQ_KEYWORDS) THEN FALLBACK_ANSWER
    ELSE IF Contains(FAQ_KEYWORDS[n].k, q) THEN FAQ_KEYWORDS[n].a
    ELSE ScanKeywords(q, n + 1)

\* the loop of lines 57-59, falling through to the keyword loop
RECURSIVE ScanKB(_, _)
ScanKB(q, n) ==
    IF n > Len(CUSTOM_KB) THEN ScanKeywords(q, 1)
    ELSE IF EntryMatches(CUSTOM_KB[n], q) THEN CUSTOM_KB[n].a
    ELSE ScanKB(q, n + 1)

\* a variant that consults the keyword index before the entries
RECURSIVE ScanKBOnly(_, _)
ScanKBOnly(q, n) ==
    IF n > Len(CUSTOM_KB) THEN FALLBACK_ANSWER
    ELSE IF EntryMatches(CUSTOM_KB[n], q) THEN CUSTOM_KB[n].a
    ELSE ScanKBOnly(q, n + 1)

get_rule_based_answer_keywords_first(question) ==
    LET q == lower(question)
    IN  IF ScanKeywords(q, 1) # FALLBACK_ANSWER THEN ScanKeywords(q, 1)
        ELSE ScanKBOnly(q, 1)

get_rule_based_answer(question) == ScanKB(lower(question), 1)

-----------------------------------------------------------------------------
(* call_gemini: what the environment can do                                *)

\* one step the call takes against an SDK: an import, a client construction,
\* a configure or a provider invocation; key and temperature are the values
\* handed over, when the step takes one
Ev(adapter, op, ok, reason, key, temperature) ==
    [adapter |-> adapter, op |-> op, ok |-> ok, reason |-> reason,
     key |-> key, temperature |-> temperature]

\* a provider response: kind is "obj" (attributes), "dict" or "str"; text is
\* the attribute or key 'text' (the string itself for a str), content the
\* attribute 'content', output the dict key 'output'; hasOutput says an "obj"
\* has the attribute 'output', whose 'candidates' is absent/None ("none"), a
\* list of objects each with or without a '.text' ("list"), or a truthy value
\* that cannot be iterated ("scalar"); repr is str(resp)
Response(kind, text, content, output, hasOutput, candKind, candItems, repr) ==
    [kind |-> kind, text |-> text, content |-> content, output |-> output,
     hasOutput |-> hasOutput,
     candidates |-> [kind |-> candKind, items |-> candItems],
     repr |-> repr]

NoResponse == Response("none", None, None, None, FALSE, "none", <<>>, "")

Returned(resp) == [fault |-> FALSE, e |-> "", resp |-> resp]
Raised(e) == [fault |-> TRUE, e |-> e, resp |-> NoResponse]

NOT_CONFIGURED ==
    "(Gemini not configured) No Gemini API key found. Provide GEMINI_API_KEY/GOOGLE_API_KEY env var or paste key in the sidebar."

\* the backquotes around google-generativeai are written as quotes here
NOT_FOUND ==
    "(Gemini client not found) Could not find a supported Gemini/GenAI Python package. " \o
    "Install 'google-generativeai' (or another official Gen AI SDK) and set GEMINI_API_KEY/GOOGLE_API_KEY."

FAILED_1 == "(Gemini request failed - genai.Client().models.generate_content) "
FAILED_2 == "(Gemini request failed - google.generativeai) "

\* the string literal that line 123 returns
JOIN_LITERAL == ".join(texts) if texts else str(resp)"

DEFAULT_MODEL == "gemini-2.5-flash"

-----------------------------------------------------------------------------
(* call_gemini                                                             *)

\* strip one layer of wrapping matching quotes
Unquote(s) ==
    IF Len(s) >= 2 /\ CharAt(s, 1) = CharAt(s, Len(s)) /\ CharAt(s, 1) \in {"\"", "'"}
    THEN SubSeq(s, 2, Len(s) - 1)
    ELSE s

\* a credential trimmed and unquoted; empty counts as absent
Normalized(o) ==
    IF o = None THEN None
    ELSE IF Unquote(strip(o[1])) = "" THEN None ELSE Some(Unquote(strip(o[1])))

\* a variant that lets the environment win over the caller's key
ResolveKey_environment_first(api_key, env) ==
    Or(Or(env.GEMINI_API_KEY, env.GOOGLE_API_KEY), api_key)

\* a variant that normalizes each source before testing it
ResolveKey_normalized(api_key, env) ==
    Or(Or(Normalized(api_key), Normalized(env.GEMINI_API_KEY)),
       Normalized(env.GOOGLE_API_KEY))

\* line 87
ResolveKey(api_key, env) ==
    Or(Or(api_key, env.GEMINI_API_KEY), env.GOOGLE_API_KEY)

\* lines 112-126: the text of a generate_content response
Extract1(resp) ==
    IF resp.kind = "obj" /\ resp.text # None THEN resp.text[1]
    ELSE IF resp.kind = "obj" /\ resp.hasOutput
         THEN IF resp.candidates.kind = "scalar" THEN resp.repr
              ELSE IF resp.candidates.kind = "list" /\ resp.candidates.items # <<>>
                   THEN JOIN_LITERAL
                   ELSE resp.repr
         ELSE resp.repr

\* lines 150-157: the text of a generate_text response
Extract2(resp) ==
    IF resp.kind = "str" THEN resp.text[1]
    ELSE IF resp.kind = "obj" /\ resp.text # None THEN resp.text[1]
    ELSE IF resp.kind = "dict"
         THEN (IF Truthy(resp.text) THEN resp.text[1] ELSE resp.repr)
         ELSE resp.repr

\* lines 161-165: the text of a chat.create response
ExtractChat(resp) ==
    IF resp.kind = "obj" /\ resp.content # None THEN resp.content[1]
    ELSE IF resp.kind = "dict"
         THEN (IF Truthy(resp.output) THEN resp.output[1] ELSE resp.repr)
         ELSE resp.repr

\* lines 96-105: the events of building the client, and whether there is one
Construct1(effective_key, w) ==
    CASE w.genai = "Client" ->
           [client |-> TRUE,
            trace |-> <<Ev(1, "Client", TRUE, "", None, None)>>]
      [] w.genai = "configure" ->
           [client |-> TRUE,
            trace |-> <<Ev(1, "Client", FALSE, w.reason1, None, None),
                        Ev(1, "configure", TRUE, "", effective_key, None),
                        Ev(1, "Client", TRUE, "", None, None)>>]
      [] w.genai = "no_configure" ->
           [client |-> FALSE,
            trace |-> <<Ev(1, "Client", FALSE, w.reason1, None, None),
                        Ev(1, "configure", FALSE, w.reason1, effective_key, None)>>]
      [] OTHER ->
           [client |-> FALSE,
            trace |-> <<Ev(1, "Client", FALSE, w.reason1, None, None),
                        Ev(1, "configure", TRUE, "", effective_key, None),
                        Ev(1, "Client", FALSE, w.reason1, None, None)>>]

\* a variant that goes on to the next import pattern when the invocation faults
Adapter1_continues(question, effective_key, model, temperature, w) ==
    IF w.genai = "absent"
    THEN [returned |-> FALSE, answer |-> "",
          trace |-> <<Ev(1, "import", FALSE, w.reason1, None, None)>>]
    ELSE LET c == Construct1(effective_key, w)
             imported == <<Ev(1, "import", TRUE, "", None, None)>> \o c.trace
         IN  IF ~c.client
             THEN [returned |-> FALSE, answer |-> "", trace |-> imported]
             ELSE IF w.out1.fault
                  THEN [returned |-> FALSE, answer |-> "",
                        trace |-> Append(imported,
                            Ev(1, "generate_content", FALSE, w.out1.e, None, None))]
                  ELSE [returned |-> TRUE, answer |-> Extract1(w.out1.resp),
                        trace |-> Append(imported,
                            Ev(1, "generate_content", TRUE, "", None, None))]

\* lines 92-131: import pattern 1; returned says the function returned here
Adapter1(question, effective_key, model, temperature, w) ==
    IF w.genai = "absent"
    THEN [returned |-> FALSE, answer |-> "",
          trace |-> <<Ev(1, "import", FALSE, w.reason1, None, None)>>]
    ELSE LET c == Construct1(effective_key, w)
             imported == <<Ev(1, "import", TRUE, "", None, None)>> \o c.trace
         IN  IF ~c.client
             THEN [returned |-> FALSE, answer |-> "", trace |-> imported]
             ELSE IF w.out1.fault
                  THEN [returned |-> TRUE, answer |-> FAILED_1 \o w.out1.e,
                        trace |-> Append(imported,
                            Ev(1, "generate_content", FALSE, w.out1.e, None, None))]
                  ELSE [returned |-> TRUE, answer |-> Extract1(w.out1.resp),
                        trace |-> Append(imported,
                            Ev(1, "generate_content", TRUE, "", None, None))]

\* lines 137-142: configure, when the module has it; a fault is swallowed
Configure2(effective_key, w) ==
    CASE w.configure2 = "ok" ->
           <<Ev(2, "configure", TRUE, "", effective_key, None)>>
      [] w.configure2 = "raises" ->
           <<Ev(2, "configure", FALSE, w.reason2, effective_key, None)>>
      [] OTHER -> <<>>

\* temperature clamped to [0.0, 1.0]
Clamp(t) == IF t < 0 THEN 0 ELSE IF t > 10 THEN 10 ELSE t

\* the body of import pattern 2, given what a fault does (returns the
\* request-failed message or not) and the temperature handed over
Adapter2With(effective_key, w, faultReturns, passed) ==
    IF w.genai2 = "absent"
    THEN [returned |-> FALSE, answer |-> "",
          trace |-> <<Ev(2, "import", FALSE, w.reason2, None, None)>>]
    ELSE LET imported == <<Ev(2, "import", TRUE, "", None, None)>>
                             \o Configure2(effective_key, w)
             op == IF w.genai2 = "generate_text" THEN "generate_text" ELSE "chat.create"
         IN  IF w.genai2 = "neither"
             THEN [returned |-> FALSE, answer |-> "", trace |-> imported]
             ELSE IF w.out2.fault
                  THEN [returned |-> faultReturns, answer |-> FAILED_2 \o w.out2.e,
                        trace |-> Append(imported,
                            Ev(2, op, FALSE, w.out2.e, None, Some(passed)))]
                  ELSE [returned |-> TRUE,
                        answer |-> IF w.genai2 = "generate_text"
                                   THEN Extract2(w.out2.resp)
                                   ELSE ExtractChat(w.out2.resp),
                        trace |-> Append(imported,
                            Ev(2, op, TRUE, "", None, Some(passed)))]

\* a variant that swallows an invocation fault and falls through
Adapter2_swallows_fault(question, effective_key, model, temperature, w) ==
    Adapter2With(effective_key, w, FALSE, temperature)

\* a variant that clamps the temperature before handing it over
Adapter2_clamps(question, effective_key, model, temperature, w) ==
    Adapter2With(effective_key, w, TRUE, Clamp(temperature))

\* lines 134-169: import pattern 2
Adapter2(question, effective_key, model, temperature, w) ==
    IF w.genai2 = "absent"
    THEN [returned |-> FALSE, answer |-> "",
          trace |-> <<Ev(2, "import", FALSE, w.reason2, None, None)>>]
    ELSE LET imported == <<Ev(2, "import", TRUE, "", None, None)>>
                             \o Configure2(effective_key, w)
             op == IF w.genai2 = "generate_text" THEN "generate_text" ELSE "chat.create"
         IN  IF w.genai2 = "neither"
             THEN [returned |-> FALSE, answer |-> "", trace |-> imported]
             ELSE IF w.out2.fault
                  THEN [returned |-> TRUE, answer |-> FAILED_2 \o w.out2.e,
                        trace |-> Append(imported,
                            Ev(2, op, FALSE, w.out2.e, None, Some(temperature)))]
                  ELSE [returned |-> TRUE,
                        answer |-> IF w.genai2 = "generate_text"
                                   THEN Extract2(w.out2.resp)
                                   ELSE ExtractChat(w.out2.resp),
                        trace |-> Append(imported,
                            Ev(2, op, TRUE, "", None, Some(temperature)))]

\* the record of one call: the function, the key it resolved, the steps it
\* took against the SDKs and the string it returned; by is the operation of
\* the page that made the call ("" for a call made directly)
Result(fn, effective_key, trace, answer) ==
    [by |-> "", fn |-> fn, effective_key |-> effective_key, trace |-> trace,
     answer |-> answer]

\* the operation called no function
NoResult(by) == [Result("none", None, <<>>, None) EXCEPT !.by = by]

\* a variant that tries import pattern 1 before it looks at the key
call_gemini_probes_first(question, api_key, model, temperature, env, w) ==
    LET effective_key == ResolveKey(api_key, env)
        a1 == Adapter1(question, effective_key, model, temperature, w)
    IN  IF ~Truthy(effective_key)
        THEN Result("call_gemini", effective_key, a1.trace, Some(NOT_CONFIGURED))
        ELSE IF a1.returned
             THEN Result("call_gemini", effective_key, a1.trace, Some(a1.answer))
             ELSE Result("call_gemini", effective_key, a1.trace, Some(NOT_FOUND))

call_gemini(question, api_key, model, temperature, env, w) ==
    LET effective_key == ResolveKey(api_key, env)
    IN  IF ~Truthy(effective_key)
        THEN Result("call_gemini", effective_key, <<>>, Some(NOT_CONFIGURED))
        ELSE LET a1 == Adapter1(question, effective_key, model, temperature, w)
             IN  IF a1.returned
                 THEN Result("call_gemini", effective_key, a1.trace, Some(a1.answer))
                 ELSE LET a2 == Adapter2(question, effective_key, model, temperature, w)
                      IN  IF a2.returned
                          THEN Result("call_gemini", effective_key,
                                      a1.trace \o a2.trace, Some(a2.answer))
                          ELSE Result("call_gemini", effective_key,
                                      a1.trace \o a2.trace, Some(NOT_FOUND))

-----------------------------------------------------------------------------
(* The Streamlit page: text box, Ask button, Clear button                  *)

\* the history is kept below this length
MaxHistory == 2

\* temperature: float = 0.2
DefaultTemperature == 2

Args(question, api_key, model, temperature) ==
    [question |-> question, api_key |-> api_key, model |-> model,
     temperature |-> temperature]

NoArgs == Args("", None, DEFAULT_MODEL, DefaultTemperature)

NoKeys == [GEMINI_API_KEY |-> None, GOOGLE_API_KEY |-> None]

\* what the text box can hold
AppQuestions ==
    {"", "  \t ", "  Where can I apply for scholarships? ", "hi"}

\* the sidebar: selectbox, key box, model box, slider (0.0 to 1.0)
Modes == {"Gemini (Google)", "Rule-based (FAQ)"}
AppKeys == {"", "sk-user"}
AppModels == {"", DEFAULT_MODEL}
SliderValues == {DefaultTemperature, 10}

\* line 223: api_key_value or None, model_value or the default
OrNone(value) == IF value = "" THEN None ELSE Some(value)
OrDefault(value, default) == IF value = "" THEN default ELSE value

\* the user edits the text box (line 212)
TypeQuestion(text) ==
    /\ user_input' = text
    /\ result' = NoResult("text_input")
    /\ UNCHANGED <<history, environ, secrets, world, args>>

\* lines 215-232; the callback's arguments are the sidebar's values
handle_ask(mode_value, api_key_value, model_value, temperature_value) ==
    LET user_q == strip(user_input)
    IN  IF user_q = ""
        THEN /\ result' = NoResult("handle_ask")
             /\ UNCHANGED <<user_input, history, environ, secrets, world, args>>
        ELSE LET r == IF mode_value = "Gemini (Google)"
                      THEN call_gemini(user_q, OrNone(api_key_value),
                                       OrDefault(model_value, DEFAULT_MODEL),
                                       temperature_value, environ, world)
                      ELSE Result("get_rule_based_answer", None, <<>>,
                                  Some(get_rule_based_answer(user_q)))
             IN  /\ Len(history) < MaxHistory
                 /\ result' = [r EXCEPT !.by = "handle_ask"]
                 /\ history' = Append(history, [user |-> user_q, bot |-> r.answer[1]])
                 /\ user_input' = ""
                 /\ UNCHANGED <<environ, secrets, world, args>>

Ask ==
    \E mode_value \in Modes, api_key_value \in AppKeys,
       model_value \in AppModels, temperature_value \in SliderValues :
        handle_ask(mode_value, api_key_value, model_value, temperature_value)

\* lines 250-252
ClearConversation ==
    /\ history' = <<>>
    /\ result' = NoResult("clear")
    /\ UNCHANGED <<user_input, environ, secrets, world, args>>

-----------------------------------------------------------------------------
(* The environments and provider behaviours considered                     *)

\* the text of the exception when an SDK cannot be imported or set up
REASON_1 == "google.genai is not usable"
REASON_2 == "google.generativeai is not usable"

Obj(text, content, hasOutput, candKind, candItems) ==
    Response("obj", text, content, None, hasOutput, candKind, candItems,
             "<Response object>")
Dict(text, output) ==
    Response("dict", text, None, output, FALSE, "none", <<>>, "{...}")
Str(text) ==
    Response("str", Some(text), None, None, FALSE, "none", <<>>, text)

\* what generate_content can do
Outcomes1 == {
    Raised("503 UNAVAILABLE"),
    Returned(Obj(Some("Hello from Gemini"), None, FALSE, "none", <<>>)),
    Returned(Obj(Some("Direct text"), None, TRUE, "list", <<Some("Candidate")>>)),
    Returned(Obj(None, None, TRUE, "list", <<Some("Hel"), Some("lo")>>)),
    Returned(Obj(None, None, TRUE, "list", <<None, Some("Second")>>)),
    Returned(Obj(None, None, TRUE, "list", <<None>>)),
    Returned(Obj(None, None, TRUE, "list", <<>>)),
    Returned(Obj(None, None, TRUE, "none", <<>>)),
    Returned(Obj(None, None, TRUE, "scalar", <<>>)),
    Returned(Obj(None, None, FALSE, "none", <<>>)),
    Returned(Dict(Some("Dict text"), None)) }

\* what generate_text and chat.create can do
Outcomes2 == {
    Raised("401 API key not valid"),
    Returned(Str("Plain answer")),
    Returned(Obj(Some("Text attribute"), None, FALSE, "none", <<>>)),
    Returned(Obj(None, Some("Chat content"), FALSE, "none", <<>>)),
    Returned(Obj(None, None, FALSE, "none", <<>>)),
    Returned(Dict(Some("Dict text"), Some("Dict output"))),
    Returned(Dict(None, None)) }

World(genai, out1, genai2, configure2, out2) ==
    [genai |-> genai, reason1 |-> REASON_1, out1 |-> out1,
     genai2 |-> genai2, configure2 |-> configure2, reason2 |-> REASON_2,
     out2 |-> out2]

NoOutcome == Raised("")

\* the second SDK, in every state it can be in
Second ==
    {<<"absent", "absent", NoOutcome>>}
    \cup {<<"neither", c, NoOutcome>> : c \in {"absent", "ok", "raises"}}
    \cup {<<g, c, o>> : g \in {"generate_text", "chat"},
                        c \in {"absent", "ok", "raises"}, o \in Outcomes2}

\* a first SDK that yields a client, beside a second SDK absent or working;
\* a first SDK that yields none, beside every second SDK
Worlds ==
    {World(g, o, s[1], s[2], s[3]) :
        g \in {"Client", "configure"}, o \in Outcomes1,
        s \in {<<"absent", "absent", NoOutcome>>,
               <<"generate_text", "ok", Returned(Str("Plain answer"))>>}}
    \cup {World(g, NoOutcome, s[1], s[2], s[3]) :
        g \in {"absent", "no_configure", "no_client"}, s \in Second}

AppWorlds == {
    World("absent", NoOutcome, "absent", "absent", NoOutcome),
    World("Client", Returned(Obj(Some("Hello from Gemini"), None, FALSE, "none", <<>>)),
          "absent", "absent", NoOutcome),
    World("no_client", NoOutcome, "chat", "ok", Raised("401 API key not valid")) }

\* os.environ: each name unset, empty or set
Environs ==
    [GEMINI_API_KEY : {None, Some(""), Some("env-gemini")},
     GOOGLE_API_KEY : {None, Some("env-google")}]

AppEnvirons == {NoKeys, [NoKeys EXCEPT !.GOOGLE_API_KEY = Some("env-google")]}

\* st.secrets: set or not
Secrets == {NoKeys, [NoKeys EXCEPT !.GEMINI_API_KEY = Some("secret-gemini")]}

\* the api_key argument of a direct call
ApiKeys == {None, Some(""), Some("   "), Some("\"abc123\""), Some("sk-user")}

\* the temperature argument of a direct call: -0.3, 0.2, 1.0, 1.5
Temperatures == {-3, DefaultTemperature, 10, 15}

\* the question argument of a direct call of the matcher
Vocabulary ==
    {"library", "LIBRARY?", "where", "exam", "Register", "password,",
     "scholarship", "group study", "study room", "rooms", "what", "the",
     "asdkjasdkj", "nonsense", "reset", "I lost my", ""}

Questions ==
    {CUSTOM_KB[n].q : n \in 1..Len(CUSTOM_KB)}
    \cup {"I lost my password, help", "asdkjasdkj nonsense", "   "}
    \cup {a \o " " \o b : a \in Vocabulary, b \in Vocabulary}

-----------------------------------------------------------------------------
(* Specifications                                                          *)

\* the page
Init ==
    /\ user_input = ""
    /\ history = <<>>
    /\ environ \in AppEnvirons
    /\ secrets = NoKeys
    /\ world \in AppWorlds
    /\ args = NoArgs
    /\ result = NoResult("")

Next ==
    \/ \E text \in AppQuestions : TypeQuestion(text)
    \/ Ask
    \/ ClearConversation

Spec == Init /\ [][Next]_vars

\* get_rule_based_answer called directly
InitMatch ==
    /\ user_input = ""
    /\ history = <<>>
    /\ environ = NoKeys
    /\ secrets = NoKeys
    /\ world \in {World("absent", NoOutcome, "absent", "absent", NoOutcome)}
    /\ args \in {Args(q, None, DEFAULT_MODEL, DefaultTemperature) : q \in Questions}
    /\ result = NoResult("")

Match ==
    /\ result.fn = "none"
    /\ result' = Result("get_rule_based_answer", None, <<>>,
                        Some(get_rule_based_answer(args.question)))
    /\ UNCHANGED <<user_input, history, environ, secrets, world, args>>

NextMatch == Match

SpecMatch == InitMatch /\ [][NextMatch]_vars

\* call_gemini called directly
InitGemini ==
    /\ user_input = ""
    /\ history = <<>>
    /\ environ \in Environs
    /\ secrets \in Secrets
    /\ world \in Worlds
    /\ args \in {Args("Where is the library?", k, DEFAULT_MODEL, t) :
                    k \in ApiKeys, t \in Temperatures}
    /\ result = NoResult("")

CallGemini ==
    /\ result.fn = "none"
    /\ result' = call_gemini(args.question, args.api_key, args.model,
                             args.temperature, environ, world)
    /\ UNCHANGED <<user_input, history, environ, secrets, world, args>>

NextGemini == CallGemini

SpecGemini == InitGemini /\ [][NextGemini]_vars

-----------------------------------------------------------------------------
(* Properties of get_rule_based_answer, under SpecMatch                    *)

Matched == result.fn = "get_rule_based_answer"

\* C1: for every knowledge entry (q, a), the matcher called with q returns a.
C1_OwnQuestionGetsOwnAnswer ==
    \A n \in 1..Len(CUSTOM_KB) :
        (Matched /\ args.question = CUSTOM_KB[n].q)
            => result.answer = Some(CUSTOM_KB[n].a)

\* the whitespace-delimited tokens of s, stated without scanning: the
\* substrings free of whitespace that whitespace or an end bounds on each side
TokensOf(s) ==
    {SubSeq(s, i, j) : <<i, j>> \in
        {p \in (1..Len(s)) \X (1..Len(s)) :
            /\ p[1] <= p[2]
            /\ \A k \in p[1]..p[2] : CharAt(s, k) \notin Whitespace
            /\ (p[1] = 1 \/ CharAt(s, p[1] - 1) \in Whitespace)
            /\ (p[2] = Len(s) \/ CharAt(s, p[2] + 1) \in Whitespace)}}

\* per entry: its lower-cased question and that question's tokens
KBLowered ==
    [n \in 1..Len(CUSTOM_KB) |->
        [q |-> lower(CUSTOM_KB[n].q), tokens |-> TokensOf(lower(CUSTOM_KB[n].q))]]

\* the entries and the keywords that match the lower-cased question q
EntryHits(q) ==
    {n \in 1..Len(CUSTOM_KB) :
        \/ Contains(KBLowered[n].q, q)
        \/ \E t \in KBLowered[n].tokens : Len(t) > 3 /\ Contains(t, q)}

KeywordHits(q) ==
    {n \in 1..Len(FAQ_KEYWORDS) : Contains(FAQ_KEYWORDS[n].k, q)}

Least(S) == CHOOSE n \in S : \A m \in S : n <= m

\* C9: the matcher returns the answer of the first entry in list order that
\* matches (its question, or a token of it longer than 3 characters, occurs
\* in the lower-cased input); the keyword index decides only when no entry
\* matched, first keyword first; the non-empty fallback is returned exactly
\* when no entry and no keyword matches.
C9_FirstEntryThenKeywordThenFallback ==
    Matched =>
        LET q == lower(args.question)
            entries == EntryHits(q)
            keywords == KeywordHits(q)
        IN  /\ entries # {} => result.answer = Some(CUSTOM_KB[Least(entries)].a)
            /\ (entries = {} /\ keywords # {})
                   => result.answer = Some(FAQ_KEYWORDS[Least(keywords)].a)
            /\ (result.answer = Some(FALLBACK_ANSWER))
                   <=> (entries = {} /\ keywords = {})
            /\ FALLBACK_ANSWER # ""

\* the keyword index decided: no entry matches this question, "password" does
C9_Witness ==
    /\ Matched
    /\ args.question = "I lost my password, help"
    /\ EntryHits(lower(args.question)) = {}
    /\ result.answer = Some(CUSTOM_KB[3].a)

-----------------------------------------------------------------------------
(* Properties of handle_ask, under Spec                                    *)

IsBlank(s) == \A i \in 1..Len(s) : CharAt(s, i) \in Whitespace

\* C8: an ask whose question is blank calls neither the matcher nor the
\* provider chain and leaves the history as it was; an ask whose question is
\* not blank calls one of them and appends exactly one turn.
C8_BlankAskIsNoOp ==
    [][result'.by = "handle_ask" =>
          IF IsBlank(user_input)
          THEN /\ history' = history
               /\ result'.fn = "none"
               /\ result'.trace = <<>>
          ELSE /\ Len(history') = Len(history) + 1
               /\ SubSeq(history', 1, Len(history)) = history
               /\ result'.fn \in {"get_rule_based_answer", "call_gemini"}
               /\ history'[Len(history')].bot = result'.answer[1]]_vars

\* a whitespace-only question was asked after a turn had been recorded
C8_Witness ==
    /\ result.by = "handle_ask"
    /\ result.fn = "none"
    /\ user_input # ""
    /\ IsBlank(user_input)
    /\ Len(history) = 1

-----------------------------------------------------------------------------
(* Properties of call_gemini, under SpecGemini                             *)

Called == result.fn = "call_gemini"

IsInvocation(e) == e.op \in {"generate_content", "generate_text", "chat.create"}

Invocations == SelectSeq(result.trace, IsInvocation)

EventsOf(adapter) == {i \in 1..Len(result.trace) : result.trace[i].adapter = adapter}

RECURSIVE FirstTruthy(_)
FirstTruthy(sources) ==
    IF sources = <<>> THEN None
    ELSE IF Truthy(Head(sources)) THEN Head(sources)
    ELSE FirstTruthy(Tail(sources))

InSecrets == FirstTruthy(<<secrets.GEMINI_API_KEY, secrets.GOOGLE_API_KEY>>)
InEnviron == FirstTruthy(<<environ.GEMINI_API_KEY, environ.GOOGLE_API_KEY>>)

\* C2 as stated: when a secret-store value and an environment value both
\* exist, the secret-store value is the credential; when only an explicit
\* value and an environment value exist, the explicit value is; when nothing
\* is set anywhere the credential is absent.
C2_SecretStoreThenExplicitThenEnvironment ==
    Called =>
        /\ (Truthy(InSecrets) /\ Truthy(InEnviron))
               => result.effective_key = InSecrets
        /\ (~Truthy(InSecrets) /\ Truthy(args.api_key) /\ Truthy(InEnviron))
               => result.effective_key = args.api_key
        /\ (~Truthy(InSecrets) /\ ~Truthy(args.api_key) /\ ~Truthy(InEnviron))
               => (~Truthy(result.effective_key)
                   /\ result.answer = Some(NOT_CONFIGURED))

\* C2 amended: the credential is the caller's explicit credential when set,
\* else the environment's GEMINI_API_KEY when set, else the environment's
\* GOOGLE_API_KEY when set, else absent with the not-configured answer; the
\* secret store is not a source.
C2_ExplicitThenEnvironment ==
    Called =>
        /\ Truthy(args.api_key) => result.effective_key = args.api_key
        /\ (~Truthy(args.api_key) /\ Truthy(environ.GEMINI_API_KEY))
               => result.effective_key = environ.GEMINI_API_KEY
        /\ (~Truthy(args.api_key) /\ ~Truthy(environ.GEMINI_API_KEY)
                /\ Truthy(environ.GOOGLE_API_KEY))
               => result.effective_key = environ.GOOGLE_API_KEY
        /\ (~Truthy(args.api_key) /\ ~Truthy(environ.GEMINI_API_KEY)
                /\ ~Truthy(environ.GOOGLE_API_KEY))
               => (~Truthy(result.effective_key)
                   /\ result.answer = Some(NOT_CONFIGURED))

\* an explicit key, an environment key and a secret all set: the explicit wins
C2_Witness ==
    /\ Called
    /\ Truthy(args.api_key)
    /\ Truthy(environ.GEMINI_API_KEY)
    /\ Truthy(secrets.GEMINI_API_KEY)
    /\ result.effective_key = args.api_key

\* the step that ended an adapter's attempt in failure: its last step, when
\* that step failed (a failed configure of the second SDK is swallowed and
\* ends nothing)
FailureOf(adapter) ==
    {i \in EventsOf(adapter) :
        /\ \A j \in EventsOf(adapter) : j <= i
        /\ ~result.trace[i].ok
        /\ ~(adapter = 2 /\ result.trace[i].op = "configure")}

NoAdapterAnswered ==
    /\ Called
    /\ Truthy(result.effective_key)
    /\ \A i \in 1..Len(result.trace) :
          IsInvocation(result.trace[i]) => ~result.trace[i].ok

\* C3 as stated: with a credential and no adapter answering, the answer holds
\* the failure reason of every adapter attempted.
C3_EveryReasonReported ==
    NoAdapterAnswered =>
        \A adapter \in {1, 2} : \A i \in FailureOf(adapter) :
            Contains(result.trace[i].reason, result.answer[1])

\* C3 amended: with a credential and no adapter answering, the answer is one
\* string: the request-failed message of the one adapter whose invocation
\* faulted, ending with that fault's reason, or, when no invocation was made,
\* the fixed client-not-found message, which holds no adapter's reason.
C3_OneReasonOrClientNotFound ==
    NoAdapterAnswered =>
        IF Invocations = <<>>
        THEN /\ result.answer = Some(NOT_FOUND)
             /\ \A adapter \in {1, 2} : \A i \in FailureOf(adapter) :
                   ~Contains(result.trace[i].reason, result.answer[1])
        ELSE /\ Len(Invocations) = 1
             /\ result.answer =
                   Some((IF Invocations[1].adapter = 1 THEN FAILED_1 ELSE FAILED_2)
                        \o Invocations[1].reason)

\* both imports failed under a credential: two attempts, no reason reported
C3_Witness ==
    /\ NoAdapterAnswered
    /\ world.genai = "absent"
    /\ world.genai2 = "absent"
    /\ Len(result.trace) = 2
    /\ result.answer = Some(NOT_FOUND)

FaultAt(adapter) ==
    \E i \in EventsOf(adapter) :
        IsInvocation(result.trace[i]) /\ ~result.trace[i].ok

\* C4 as stated: when the first adapter's invocation faults, the chain goes on
\* to attempt the next adapter.
C4_FaultProceedsToNextAdapter ==
    (Called /\ FaultAt(1)) => EventsOf(2) # {}

\* C4 amended: when an adapter's invocation faults, the call returns at once
\* that adapter's request-failed message and attempts no later adapter; the
\* second adapter is attempted only when the first one's import or client
\* construction failed, never after the first one was invoked.
C4_FaultEndsTheChain ==
    Called =>
        /\ FaultAt(1) =>
              /\ EventsOf(2) = {}
              /\ result.answer =
                    Some(FAILED_1 \o result.trace[Len(result.trace)].reason)
        /\ EventsOf(2) # {} =>
              \A i \in EventsOf(1) : ~IsInvocation(result.trace[i])
        /\ FaultAt(2) =>
              result.answer =
                    Some(FAILED_2 \o result.trace[Len(result.trace)].reason)

\* the first adapter faulted while the second SDK was installed and untried
C4_Witness ==
    /\ Called
    /\ FaultAt(1)
    /\ world.genai2 = "generate_text"
    /\ EventsOf(2) = {}

\* C5: with no credential resolvable from any source the answer is the fixed
\* not-configured message and no adapter is imported, constructed or invoked.
C5_NoCredentialNoAttempt ==
    (/\ Called
     /\ ~Truthy(args.api_key)
     /\ ~Truthy(environ.GEMINI_API_KEY)
     /\ ~Truthy(environ.GOOGLE_API_KEY))
        => (result.answer = Some(NOT_CONFIGURED) /\ result.trace = <<>>)

\* no credential anywhere while the first SDK is installed and would answer
C5_Witness ==
    /\ Called
    /\ ~Truthy(args.api_key)
    /\ ~Truthy(environ.GEMINI_API_KEY)
    /\ ~Truthy(environ.GOOGLE_API_KEY)
    /\ ~Truthy(secrets.GEMINI_API_KEY)
    /\ world.genai = "Client"
    /\ ~world.out1.fault
    /\ result.answer = Some(NOT_CONFIGURED)

\* C6 as stated: a temperature handed to a provider invocation is the
\* caller's temperature clamped to [0.0, 1.0].
C6_TemperatureClamped ==
    Called =>
        \A i \in 1..Len(result.trace) :
            (IsInvocation(result.trace[i]) /\ result.trace[i].temperature # None)
                => /\ result.trace[i].temperature[1] \in 0..10
                   /\ result.trace[i].temperature = Some(Clamp(args.temperature))

\* C6 amended: the second adapter's invocation is handed the caller's
\* temperature unchanged (1.5 as 1.5, -0.3 as -0.3), so it lies in [0.0, 1.0]
\* exactly when the caller's value does; the first adapter's invocation is
\* handed no temperature.
C6_TemperaturePassedUnchanged ==
    Called =>
        \A i \in 1..Len(result.trace) :
            IsInvocation(result.trace[i]) =>
                IF result.trace[i].adapter = 1
                THEN result.trace[i].temperature = None
                ELSE result.trace[i].temperature = Some(args.temperature)

\* a caller's 1.5 reached generate_text or chat.create as 1.5
C6_Witness ==
    /\ Called
    /\ args.temperature = 15
    /\ \E i \in EventsOf(2) :
          IsInvocation(result.trace[i]) /\ result.trace[i].temperature = Some(15)

\* C7 as stated: the credential is the first source (explicit, then the
\* environment's two names) that is non-empty once trimmed and stripped of one
\* layer of wrapping quotes, in that normalized form; absent when none is.
C7_CredentialNormalized ==
    Called =>
        LET expected == FirstTruthy(<<Normalized(args.api_key),
                                      Normalized(environ.GEMINI_API_KEY),
                                      Normalized(environ.GOOGLE_API_KEY)>>)
        IN  IF Truthy(expected) THEN result.effective_key = expected
            ELSE ~Truthy(result.effective_key)

\* C7 amended: the credential is used exactly as its source holds it, with no
\* trimming and no quote stripping, and is handed so to every configure; only
\* an unset or empty source counts as absent, so a whitespace-only or quoted
\* explicit credential is itself the credential.
C7_CredentialUsedVerbatim ==
    Called =>
        /\ Truthy(result.effective_key) =>
              result.effective_key \in
                  {args.api_key, environ.GEMINI_API_KEY, environ.GOOGLE_API_KEY}
        /\ (args.api_key # None /\ args.api_key # Some("")) =>
              result.effective_key = args.api_key
        /\ \A i \in 1..Len(result.trace) :
              result.trace[i].op = "configure" =>
                  result.trace[i].key = result.effective_key
        /\ result.answer = Some(NOT_CONFIGURED) =>
              \A o \in {args.api_key, environ.GEMINI_API_KEY, environ.GOOGLE_API_KEY} :
                  o \in {None, Some("")}

\* a whitespace-only explicit key, beside an environment key, handed to configure
C7_Witness ==
    /\ Called
    /\ args.api_key = Some("   ")
    /\ Truthy(environ.GEMINI_API_KEY)
    /\ result.effective_key = Some("   ")
    /\ \E i \in 1..Len(result.trace) :
          result.trace[i].op = "configure" /\ result.trace[i].key = Some("   ")

RECURSIVE JoinTexts(_)
JoinTexts(items) ==
    IF items = <<>> THEN ""
    ELSE (IF Head(items) = None THEN "" ELSE Head(items)[1]) \o JoinTexts(Tail(items))

HasText(item) == item # None

\* C10: the text of a successful generate_content response is its direct text
\* field when present, else the texts of its output candidates when some
\* carry text, else the stringified response.
C10_FirstExtractionRuleWins ==
    (/\ Called
     /\ Invocations # <<>>
     /\ Invocations[1].op = "generate_content"
     /\ Invocations[1].ok
     /\ world.out1.resp.kind = "obj")
        => LET resp == world.out1.resp
               texts == SelectSeq(resp.candidates.items, HasText)
           IN  result.answer =
                   Some(IF resp.text # None THEN resp.text[1]
                        ELSE IF resp.hasOutput /\ resp.candidates.kind = "list"
                                /\ texts # <<>>
                             THEN JoinTexts(texts)
                             ELSE resp.repr)

====
